---- MODULE Spec2Model ----
(***************************************************************************)
(* Sampark-AI multilingual chat (sampark_ai_multilingual_chat.py).         *)
(*                                                                         *)
(* The program is modelled as a sequential state machine: module load      *)
(* (the GEMINI_API_KEY gate), then invocations of sampark_ai_chat, made    *)
(* either by the __main__ block (three fixed examples) or by a caller that *)
(* imported the module.  The two external services (the Gemini model and   *)
(* Google Cloud Translate) answer nondeterministically: every call may     *)
(* return or raise.                                                        *)
(*                                                                         *)
(* Python strings are sequences: a language code is a sequence of          *)
(* characters, a text is a sequence of tokens, and string concatenation    *)
(* (an f-string) is \o.                                                    *)
(***************************************************************************)
EXTENDS Integers, Sequences, FiniteSets, TLC

VARIABLES
    environ,              \* os.environ restricted to GEMINI_API_KEY: a set of <<name, value>>
    asMain,               \* TRUE: run as a script (__name__ == "__main__"); FALSE: imported
    pc,                   \* position of the single thread of control
    invoked,              \* language codes of the invocations of sampark_ai_chat so far
    user_prompt,          \* sampark_ai_chat parameter
    language_code,        \* sampark_ai_chat parameter
    ai_response_en,       \* sampark_ai_chat local (<<>> while unbound)
    text,                 \* translate_text parameter
    target_language_code, \* translate_text parameter
    result,               \* translate_text local: the dict translate() returned
    tt_e,                 \* translate_text: the exception bound by "except Exception as e"
    responses,            \* what each external call of this invocation answered
    trace,                \* the calls made by this invocation, in order
    outcome,              \* "none" while running, then "returned" or "raised"
    ret,                  \* the value returned, or the exception raised
    ref,                  \* the first completed invocation of the run (<<>> before)
    netCalls,             \* network calls made since the program started
    clientsBuilt          \* service clients constructed since the program started

vars == << environ, asMain, pc, invoked, user_prompt, language_code,
           ai_response_en, text, target_language_code, result, tt_e,
           responses, trace, outcome, ret, ref, netCalls, clientsBuilt >>

(***************************************************************************)
(* Bounds                                                                  *)
(***************************************************************************)
\* invocations a caller that imported the module makes in one run
MaxCalls == 3

(***************************************************************************)
(* Input alphabets                                                         *)
(***************************************************************************)
en == << "e", "n" >>
hi == << "h", "i" >>
es == << "e", "s" >>

Codes == { en, << "E", "N" >>, << "E", "n" >>, hi, es,
           << "e", "n", "-", "U", "S" >> }

Prompts == { << "How do I renew my passport?" >>, << "office hours?" >> }

\* what model.invoke(...).content can be
ModelTexts == { << "Apply online." >>, << "Visit the office." >> }

\* what the translation service can put under 'translatedText'
TranslatedTexts == { << "ONLINE AAVEDAN KAREN." >>, << "Apply online." >> }

BuildErrors == { << "DefaultCredentialsError" >> }
InvokeErrors == { << "ServiceUnavailable" >> }
ClientErrors == { << "DefaultCredentialsError" >> }
TranslateErrors == { << "Forbidden" >> }
KeyError == << "KeyError: 'translatedText'" >>

\* the dicts translate_client.translate can return: with or without the key
TranslateResults ==
    { [translatedText |-> t, detectedSourceLanguage |-> en] : t \in TranslatedTexts }
    \cup { [detectedSourceLanguage |-> en] }

(***************************************************************************)
(* Pure helpers                                                            *)
(***************************************************************************)
\* str.lower() on the characters language codes are written with
LowerChar(c) ==
    CASE c = "E" -> "e"
      [] c = "N" -> "n"
      [] c = "H" -> "h"
      [] c = "I" -> "i"
      [] c = "S" -> "s"
      [] c = "U" -> "u"
      [] OTHER -> c

Lower(s) == [ i \in 1..Len(s) |-> LowerChar(s[i]) ]

\* line 8 as "os.getenv(...) is None": an empty value passes the gate
KeyMissingNoneOnly(env) ==
    \A kv \in env : kv[1] # "GEMINI_API_KEY"

\* line 8: not os.getenv("GEMINI_API_KEY") -- unset or empty
KeyMissing(env) ==
    \A kv \in env : kv[1] = "GEMINI_API_KEY" => kv[2] = ""

system_instruction == "You are Sampark-AI, ... Always respond in clear, formal English."

\* a module-level message list that keeps the earlier prompt
MessagesAccumulated(prompt) ==
    IF ref # << >>
    THEN << system_instruction >> \o ref[1].user_prompt \o prompt
    ELSE << system_instruction >> \o prompt

\* lines 49-52: [SystemMessage(system_instruction), HumanMessage(user_prompt)]
Messages(prompt) == << system_instruction >> \o prompt

\* the except clause returning only the details
ModelErrorDetailsOnly(e) == e

\* line 61: the f-string returned when model.invoke raises
ModelErrorReturn(e) ==
    << "AI Error: Could not generate response. Check your GEMINI_API_KEY. Details: " >> \o e

\* line 64 without case folding
NeedsTranslationCaseSensitive(code) == code # en

\* line 64 with the comparison inverted
NeedsTranslationInverted(code) == Lower(code) = en

\* line 64: language_code.lower() != 'en'
NeedsTranslation(code) == Lower(code) # en

\* line 65 passing the user's prompt instead of the model's answer
TranslateTextArgsPrompt(response, code) ==
    [ text |-> user_prompt, code |-> code ]

\* line 65: translate_text(ai_response_en, language_code)
TranslateTextArgs(response, code) ==
    [ text |-> response, code |-> code ]

\* result['translatedText'] read after the try block
TryBodyWithoutRead == { "tt_client", "tt_translate" }

\* lines 21-25: the statements inside translate_text's try block
TryBody == { "tt_client", "tt_translate", "tt_read" }

\* an except clause that tries the request once more
ExceptNextRetryOnce(attempts) ==
    IF attempts < 2 THEN "tt_client" ELSE "return_text"

\* lines 26-29: the except clause returns text, whatever was attempted
ExceptNext(attempts) == "return_text"

Event(op, t, c) == [ op |-> op, text |-> t, code |-> c ]

Count(seq, op) == Cardinality({ i \in 1..Len(seq) : seq[i].op = op })

Unused == [ out |-> "unused", val |-> [ none |-> << >> ] ]
Returned(v) == [ out |-> "returned", val |-> v ]
Raised(e) == [ out |-> "raised", val |-> [ exc |-> e ] ]

NoResponses ==
    [ build |-> Unused, invoke |-> Unused, client |-> Unused, translate |-> Unused ]

NoResult == [ none |-> << >> ]

\* lines 75-96: the three hard-coded examples
Examples ==
    << [ user_prompt |-> << "What is the process for applying for a new identity card?" >>,
         language_code |-> en ],
       [ user_prompt |-> << "(hi) How can I get a birth certificate for my daughter?" >>,
         language_code |-> hi ],
       [ user_prompt |-> << "Necesito saber el horario de la oficina de impuestos." >>,
         language_code |-> es ] >>

\* the finished invocation as the caller observes it
Frame ==
    [ user_prompt |-> user_prompt, language_code |-> language_code,
      responses |-> responses, trace |-> trace, outcome |-> outcome, ret |-> ret ]

(***************************************************************************)
(* Initial state: the interpreter is about to execute the module           *)
(***************************************************************************)
Init ==
    /\ environ \in { {}, { << "GEMINI_API_KEY", "" >> },
                     { << "GEMINI_API_KEY", "AIza-key" >> } }
    /\ asMain \in BOOLEAN
    /\ pc = "load"
    /\ invoked = << >>
    /\ user_prompt = << >>
    /\ language_code = << >>
    /\ ai_response_en = << >>
    /\ text = << >>
    /\ target_language_code = << >>
    /\ result = NoResult
    /\ tt_e = << >>
    /\ responses = NoResponses
    /\ trace = << >>
    /\ outcome = "none"
    /\ ret = << >>
    /\ ref = << >>
    /\ netCalls = 0
    /\ clientsBuilt = 0

(***************************************************************************)
(* Module load, lines 1-9                                                  *)
(***************************************************************************)
\* line 9: raise ValueError("GEMINI_API_KEY environment variable not set.")
LoadAbort ==
    /\ pc = "load"
    /\ KeyMissing(environ)
    /\ pc' = "aborted"
    /\ UNCHANGED << environ, asMain, invoked, user_prompt, language_code,
                    ai_response_en, text, target_language_code, result, tt_e,
                    responses, trace, outcome, ret, ref, netCalls, clientsBuilt >>

\* the gate passes; the definitions are bound, control reaches line 74
LoadOk ==
    /\ pc = "load"
    /\ ~ KeyMissing(environ)
    /\ pc' = "caller"
    /\ UNCHANGED << environ, asMain, invoked, user_prompt, language_code,
                    ai_response_en, text, target_language_code, result, tt_e,
                    responses, trace, outcome, ret, ref, netCalls, clientsBuilt >>

(***************************************************************************)
(* sampark_ai_chat, lines 32-70                                            *)
(***************************************************************************)
\* entry: bind the parameters of a fresh frame
Enter(p, c) ==
    /\ ref' = IF Len(invoked) = 1 THEN << Frame >> ELSE ref
    /\ invoked' = Append(invoked, c)
    /\ user_prompt' = p
    /\ language_code' = c
    /\ ai_response_en' = << >>
    /\ text' = << >>
    /\ target_language_code' = << >>
    /\ result' = NoResult
    /\ tt_e' = << >>
    /\ responses' = NoResponses
    /\ trace' = << >>
    /\ outcome' = "none"
    /\ ret' = << >>
    /\ pc' = "build"
    /\ UNCHANGED << environ, asMain, netCalls, clientsBuilt >>

\* lines 77-96: the __main__ block makes the next example call
MainCall ==
    /\ pc = "caller"
    /\ asMain
    /\ Len(invoked) < Len(Examples)
    /\ LET ex == Examples[Len(invoked) + 1]
       IN  Enter(ex.user_prompt, ex.language_code)

\* end of the script
MainExit ==
    /\ pc = "caller"
    /\ asMain
    /\ Len(invoked) = Len(Examples)
    /\ pc' = "exited"
    /\ UNCHANGED << environ, asMain, invoked, user_prompt, language_code,
                    ai_response_en, text, target_language_code, result, tt_e,
                    responses, trace, outcome, ret, ref, netCalls, clientsBuilt >>

\* a caller that imported the module calls sampark_ai_chat(p, c)
Call ==
    /\ pc = "caller"
    /\ ~ asMain
    /\ Len(invoked) < MaxCalls
    /\ \E p \in Prompts, c \in Codes : Enter(p, c)

\* the function returns v to its caller
Return(v) ==
    /\ outcome' = "returned"
    /\ ret' = v
    /\ pc' = "caller"

\* an exception leaves sampark_ai_chat: the script dies with a traceback,
\* an importing caller gets the exception
Propagate(e) ==
    /\ outcome' = "raised"
    /\ ret' = e
    /\ pc' = IF asMain THEN "crashed" ELSE "caller"

\* line 39 -> lines 12-16: ChatGoogleGenerativeAI(...) constructs the client
BuildOk ==
    /\ pc = "build"
    /\ trace' = Append(trace, Event("ChatGoogleGenerativeAI", << >>, << >>))
    /\ responses' = [ responses EXCEPT !.build = Returned([ model |-> << "gemini-2.5-flash" >> ]) ]
    /\ clientsBuilt' = clientsBuilt + 1
    /\ pc' = "invoke"
    /\ UNCHANGED << environ, asMain, invoked, user_prompt, language_code,
                    ai_response_en, text, target_language_code, result, tt_e,
                    outcome, ret, ref, netCalls >>

\* line 39: the constructor raises; the call is outside every try block
BuildRaise ==
    /\ pc = "build"
    /\ \E e \in BuildErrors :
          /\ trace' = Append(trace, Event("ChatGoogleGenerativeAI", << >>, << >>))
          /\ responses' = [ responses EXCEPT !.build = Raised(e) ]
          /\ Propagate(e)
    /\ UNCHANGED << environ, asMain, invoked, user_prompt, language_code,
                    ai_response_en, text, target_language_code, result, tt_e,
                    ref, netCalls, clientsBuilt >>

\* line 58: model.invoke(messages).content
InvokeOk ==
    /\ pc = "invoke"
    /\ \E t \in ModelTexts :
          /\ responses' = [ responses EXCEPT !.invoke = Returned([ content |-> t ]) ]
          /\ ai_response_en' = t
    /\ trace' = Append(trace, Event("model.invoke", Messages(user_prompt), << >>))
    /\ netCalls' = netCalls + 1
    /\ pc' = "decide"
    /\ UNCHANGED << environ, asMain, invoked, user_prompt, language_code,
                    text, target_language_code, result, tt_e,
                    outcome, ret, ref, clientsBuilt >>

\* lines 60-61: model.invoke raises, the error string is returned
InvokeRaise ==
    /\ pc = "invoke"
    /\ \E e \in InvokeErrors :
          /\ responses' = [ responses EXCEPT !.invoke = Raised(e) ]
          /\ Return(ModelErrorReturn(e))
    /\ trace' = Append(trace, Event("model.invoke", Messages(user_prompt), << >>))
    /\ netCalls' = netCalls + 1
    /\ UNCHANGED << environ, asMain, invoked, user_prompt, language_code,
                    ai_response_en, text, target_language_code, result, tt_e,
                    ref, clientsBuilt >>

\* lines 64-65: a non-English target, translate_text is called
DecideTranslate ==
    /\ pc = "decide"
    /\ NeedsTranslation(language_code)
    /\ LET args == TranslateTextArgs(ai_response_en, language_code)
       IN  /\ text' = args.text
           /\ target_language_code' = args.code
           /\ trace' = Append(trace, Event("translate_text", args.text, args.code))
    /\ pc' = "tt_client"
    /\ UNCHANGED << environ, asMain, invoked, user_prompt, language_code,
                    ai_response_en, result, tt_e, responses,
                    outcome, ret, ref, netCalls, clientsBuilt >>

\* lines 68-70: English was requested, the English response is returned
DecideEnglish ==
    /\ pc = "decide"
    /\ ~ NeedsTranslation(language_code)
    /\ Return(ai_response_en)
    /\ UNCHANGED << environ, asMain, invoked, user_prompt, language_code,
                    ai_response_en, text, target_language_code, result, tt_e,
                    responses, trace, ref, netCalls, clientsBuilt >>

(***************************************************************************)
(* translate_text, lines 19-29 (its return value is what line 67 returns)  *)
(***************************************************************************)
\* exception e raised by the statement at pc
Except(e) ==
    IF pc \in TryBody
    THEN /\ tt_e' = e
         /\ IF ExceptNext(Count(trace', "translate.Client")) = "return_text"
            THEN Return(text)
            ELSE /\ pc' = ExceptNext(Count(trace', "translate.Client"))
                 /\ UNCHANGED << outcome, ret >>
    ELSE /\ tt_e' = tt_e
         /\ Propagate(e)

\* line 22: translate.Client()
ClientOk ==
    /\ pc = "tt_client"
    /\ trace' = Append(trace, Event("translate.Client", << >>, << >>))
    /\ responses' = [ responses EXCEPT !.client = Returned([ client |-> << "Client" >> ]) ]
    /\ clientsBuilt' = clientsBuilt + 1
    /\ pc' = "tt_translate"
    /\ UNCHANGED << environ, asMain, invoked, user_prompt, language_code,
                    ai_response_en, text, target_language_code, result, tt_e,
                    outcome, ret, ref, netCalls >>

\* line 22 raises (e.g. credentials missing)
ClientRaise ==
    /\ pc = "tt_client"
    /\ trace' = Append(trace, Event("translate.Client", << >>, << >>))
    /\ \E e \in ClientErrors :
          /\ responses' = [ responses EXCEPT !.client = Raised(e) ]
          /\ Except(e)
    /\ UNCHANGED << environ, asMain, invoked, user_prompt, language_code,
                    ai_response_en, text, target_language_code, result,
                    ref, netCalls, clientsBuilt >>

\* line 24: translate_client.translate(text, target_language=target_language_code)
TranslateOk ==
    /\ pc = "tt_translate"
    /\ trace' = Append(trace, Event("translate", text, target_language_code))
    /\ \E r \in TranslateResults :
          /\ responses' = [ responses EXCEPT !.translate = Returned(r) ]
          /\ result' = r
    /\ netCalls' = netCalls + 1
    /\ pc' = "tt_read"
    /\ UNCHANGED << environ, asMain, invoked, user_prompt, language_code,
                    ai_response_en, text, target_language_code, tt_e,
                    outcome, ret, ref, clientsBuilt >>

\* line 24 raises
TranslateRaise ==
    /\ pc = "tt_translate"
    /\ trace' = Append(trace, Event("translate", text, target_language_code))
    /\ \E e \in TranslateErrors :
          /\ responses' = [ responses EXCEPT !.translate = Raised(e) ]
          /\ Except(e)
    /\ netCalls' = netCalls + 1
    /\ UNCHANGED << environ, asMain, invoked, user_prompt, language_code,
                    ai_response_en, text, target_language_code, result,
                    ref, clientsBuilt >>

\* line 25: return result['translatedText']
ReadOk ==
    /\ pc = "tt_read"
    /\ "translatedText" \in DOMAIN result
    /\ Return(result.translatedText)
    /\ UNCHANGED << environ, asMain, invoked, user_prompt, language_code,
                    ai_response_en, text, target_language_code, result, tt_e,
                    responses, trace, ref, netCalls, clientsBuilt >>

\* line 25 raises KeyError: the result has no 'translatedText'
ReadRaise ==
    /\ pc = "tt_read"
    /\ "translatedText" \notin DOMAIN result
    /\ Except(KeyError)
    /\ UNCHANGED << environ, asMain, invoked, user_prompt, language_code,
                    ai_response_en, text, target_language_code, result,
                    responses, trace, ref, netCalls, clientsBuilt >>

Next ==
    \/ LoadAbort
    \/ LoadOk
    \/ MainCall
    \/ MainExit
    \/ Call
    \/ BuildOk
    \/ BuildRaise
    \/ InvokeOk
    \/ InvokeRaise
    \/ DecideTranslate
    \/ DecideEnglish
    \/ ClientOk
    \/ ClientRaise
    \/ TranslateOk
    \/ TranslateRaise
    \/ ReadOk
    \/ ReadRaise

Spec == Init /\ [][Next]_vars

TypeOK ==
    /\ asMain \in BOOLEAN
    /\ pc \in { "load", "aborted", "caller", "build", "invoke", "decide",
                "tt_client", "tt_translate", "tt_read", "crashed", "exited" }
    /\ outcome \in { "none", "returned", "raised" }
    /\ netCalls \in Nat
    /\ clientsBuilt \in Nat
    /\ Len(ref) <= 1

(***************************************************************************)
(* Properties                                                              *)
(***************************************************************************)
ErrorPrefix == "AI Error: Could not generate response. Check your GEMINI_API_KEY. Details: "

\* positions in the trace of the calls named op
Calls(op) == { i \in 1..Len(trace) : trace[i].op = op }

ModelReturned == responses.invoke.out = "returned"

\* C1 (as stated): every invocation that has returned with a non-English
\* target code called translate_text exactly once, on the model's output.
C1_Original ==
    (outcome = "returned" /\ Lower(language_code) # en)
        => /\ Cardinality(Calls("translate_text")) = 1
           /\ ModelReturned
           /\ \A i \in Calls("translate_text") :
                 trace[i].text = responses.invoke.val.content

\* C1 (amended): every finished invocation with a non-English target code
\* in which the model call returned called translate_text exactly once, and
\* the text argument was the model's output of that invocation.
C1_TranslateOnceOnModelOutput ==
    (outcome # "none" /\ Lower(language_code) # en /\ ModelReturned)
        => /\ Cardinality(Calls("translate_text")) = 1
           /\ \A i \in Calls("translate_text") :
                 trace[i].text = responses.invoke.val.content

C1_Witness ==
    /\ outcome = "returned"
    /\ language_code = hi
    /\ ModelReturned
    /\ Cardinality(Calls("translate_text")) = 1
    /\ ret \in TranslatedTexts

\* C2 (as stated): every invocation that has returned with target code 'en'
\* returned the model's raw output and made no translation call.
C2_Original ==
    (outcome = "returned" /\ language_code = en)
        => /\ ModelReturned
           /\ ret = responses.invoke.val.content
           /\ Calls("translate_text") \cup Calls("translate.Client")
                 \cup Calls("translate") = {}

\* C2 (amended): every finished invocation with target code 'en' in which
\* the model call returned has returned the model's raw output, and no call
\* to translate_text or to the translation service was made.
C2_EnglishReturnsRawOutput ==
    (outcome # "none" /\ language_code = en /\ ModelReturned)
        => /\ outcome = "returned"
           /\ ret = responses.invoke.val.content
           /\ Calls("translate_text") \cup Calls("translate.Client")
                 \cup Calls("translate") = {}

C2_Witness ==
    /\ outcome = "returned"
    /\ language_code = en
    /\ ModelReturned
    /\ ret \in ModelTexts
    /\ Len(trace) = 2

\* some step of the translation call of this invocation has raised
TranslationRaised ==
    \/ responses.client.out = "raised"
    \/ responses.translate.out = "raised"
    \/ /\ responses.translate.out = "returned"
       /\ "translatedText" \notin DOMAIN result
       /\ pc # "tt_read"

\* C3: once a step of the translation call has raised (building the client,
\* the translate request, or reading 'translatedText'), the invocation never
\* raises, and it returns the English text the model produced, unchanged.
C3_TranslationFailureFallsBack ==
    TranslationRaised
        => /\ outcome # "raised"
           /\ pc \notin { "crashed" }
           /\ outcome = "returned"
                 => /\ ret = responses.invoke.val.content
                    /\ ret = text

\* the first invocation lost the translation client, the current one got a
\* result without 'translatedText'; both returned the model's text
C3_Witness ==
    /\ ref # << >>
    /\ ref[1].responses.client.out = "raised"
    /\ ref[1].outcome = "returned"
    /\ ref[1].ret \in ModelTexts
    /\ outcome = "returned"
    /\ tt_e = KeyError
    /\ responses.translate.out = "returned"
    /\ ret \in ModelTexts


\* C4 (as stated): sampark_ai_chat never raises: every finished invocation
\* has returned a string, also when building the model client failed.
C4_NeverRaises ==
    outcome # "raised"

\* C5: with GEMINI_API_KEY unset or empty the program aborts at load: no
\* invocation starts, no client is constructed and no network call is made.
C5_FailFastBeforeAnyCall ==
    ((environ = {} \/ environ = { << "GEMINI_API_KEY", "" >> }) /\ pc # "load")
        => /\ pc = "aborted"
           /\ invoked = << >>
           /\ trace = << >>
           /\ clientsBuilt = 0
           /\ netCalls = 0

C5_Witness ==
    /\ pc = "aborted"
    /\ environ = { << "GEMINI_API_KEY", "" >> }
    /\ netCalls = 0

\* C6: within one invocation the model service is called at most once and
\* the translation service is called at most once.
C6_NoRetries ==
    /\ Cardinality(Calls("model.invoke")) <= 1
    /\ Cardinality(Calls("translate")) <= 1
    /\ Cardinality(Calls("translate.Client")) <= 1

C6_Witness ==
    /\ outcome = "returned"
    /\ responses.translate.out = "raised"
    /\ Cardinality(Calls("translate")) = 1
    /\ Cardinality(Calls("model.invoke")) = 1

\* the services answered a and b alike wherever both asked
SameResponses(a, b) ==
    \A k \in DOMAIN NoResponses :
        \/ a.responses[k].out = "unused"
        \/ b.responses[k].out = "unused"
        \/ a.responses[k] = b.responses[k]

\* C7: a finished invocation given the same prompt, the same language code
\* and the same service responses as the first invocation of the run has the
\* same result and made the same sequence of calls, whatever happened in
\* between.
C7_Stateless ==
    (ref # << >> /\ outcome # "none")
        => ((/\ ref[1].user_prompt = user_prompt
             /\ ref[1].language_code = language_code
             /\ SameResponses(ref[1], Frame))
               => /\ ref[1].outcome = outcome
                  /\ ref[1].ret = ret
                  /\ ref[1].trace = trace)

C7_Witness ==
    /\ Len(invoked) = 3
    /\ ref # << >>
    /\ outcome = "returned"
    /\ ref[1].user_prompt = user_prompt
    /\ ref[1].language_code = language_code
    /\ invoked[2] # language_code
    /\ SameResponses(ref[1], Frame)
    /\ ref[1].trace = trace
    /\ Len(trace) = 5

\* C8: the translation function and service are called only after the model
\* call of the same invocation has returned; when the model call raises, no
\* translation call is made and the 'AI Error: ...' string is returned as
\* it is, for every language code.
C8_StrictlySequential ==
    /\ \A i \in Calls("translate_text") \cup Calls("translate.Client") \cup Calls("translate") :
          /\ ModelReturned
          /\ \E j \in 1..(i - 1) : trace[j].op = "model.invoke"
    /\ responses.invoke.out = "raised"
          => /\ Calls("translate_text") \cup Calls("translate.Client")
                   \cup Calls("translate") = {}
             /\ outcome = "returned"
             /\ ret = << ErrorPrefix >> \o responses.invoke.val.exc

C8_Witness ==
    /\ responses.invoke.out = "raised"
    /\ language_code = hi
    /\ outcome = "returned"
    /\ ret[1] = ErrorPrefix

\* C9 (as stated): a script run with the key present ends after exactly
\* three invocations, with codes 'en', 'hi', 'es' in that order.
C9_ThreeExamplesThenExit ==
    (asMain /\ pc \in { "exited", "crashed" })
        => invoked = << en, hi, es >>

\* C10 (as stated): for every invocation that has returned, a code whose
\* lowercase form is 'en' means no translation call and the model output
\* returned; any other code means translate_text was called with the code
\* exactly as supplied.
C10_Original ==
    outcome = "returned"
        => IF Lower(language_code) = en
           THEN /\ Calls("translate_text") = {}
                /\ ModelReturned
                /\ ret = responses.invoke.val.content
           ELSE \E i \in Calls("translate_text") : trace[i].code = language_code

\* C10 (amended): for every finished invocation in which the model call
\* returned, a code whose lowercase form is 'en' means no translation call
\* and the model output returned; any other code means translate_text and
\* the translate request got the code exactly as supplied.
C10_DecisionOnLoweredCode ==
    (outcome # "none" /\ ModelReturned)
        => IF Lower(language_code) = en
           THEN /\ Calls("translate_text") \cup Calls("translate") = {}
                /\ ret = responses.invoke.val.content
           ELSE /\ \E i \in Calls("translate_text") : trace[i].code = language_code
                /\ \A i \in Calls("translate_text") \cup Calls("translate") :
                      trace[i].code = language_code

\* 'EN' answered untranslated, then 'en-US' sent to the translation service
C10_Witness ==
    /\ ref # << >>
    /\ ref[1].language_code = << "E", "N" >>
    /\ ref[1].outcome = "returned"
    /\ ref[1].ret \in ModelTexts
    /\ Len(ref[1].trace) = 2
    /\ outcome = "returned"
    /\ language_code = << "e", "n", "-", "U", "S" >>
    /\ \E i \in Calls("translate") : trace[i].code = language_code

====
